---- MODULE Spec2Model ----
(***************************************************************************)
(* State machine of the voice-translation front-end: the App component of  *)
(* src/App.tsx (React state, refs, handlers, the controls each render      *)
(* shows) and the gateway client of src/unnamed/part_000 and part_001 (two *)
(* drafts of services/geminiService, which differ in parseGeminiJson).     *)
(*                                                                         *)
(* Every await of the source is a suspension point: the continuation is a  *)
(* task of `pending`, resumed by its own action in any order.  Handlers    *)
(* write the React state through functional updates, so every write is     *)
(* applied to the latest state.                                            *)
(***************************************************************************)
EXTENDS Integers, Sequences, FiniteSets, Bags, TLC

\* ------------------------------------------------------------------ bounds
\* Continuations (microphone grants, recorder stop events, clip encodings,
\* gateway calls) that may be suspended at the same time.
MaxPending == 2
\* The count of network invocations saturates here.
MaxNetCalls == 1
\* Recorders replaced in mediaRecorderRef while still recording.
MaxOrphans == 1
\* Audio contexts counted.
MaxContexts == 2
\* Functions called alone: the longest byte sequence decoded, the longest
\* response text parsed token by token, the most parts of a speech response.
MaxBytes == 4
MaxTokens == 3
MaxParts == 3

\* ------------------------------------------------------------------ values
\* JavaScript null in a string-valued slot, null in an object-valued slot,
\* and undefined.
Null == "null"
NoResult == [kind |-> "null"]
JSUndefined == "<undefined>"

ARABIC == "ar"
ENGLISH == "en"
FRENCH == "fr"
AppLanguage == {ARABIC, ENGLISH, FRENCH}

\* process.env.API_KEY as the build defines it.
ApiKeys == {JSUndefined, "", "undefined", "AIza"}

\* User-facing messages.
MsgMic == "Could not access microphone. Please check permissions."
MsgAudio == "Oops! Something went wrong understanding the audio."
MsgAudioKey == "API Key is missing. Please set 'API_KEY' in your Vercel settings."
MsgReply == "Failed to process your reply."
MsgReplyKey == "API Key is missing. Please check your settings."
MsgSpeech == "Speech error: Please check your API key."

\* Messages of thrown errors.
ErrKey == "API_KEY_MISSING"
ErrNetwork == "fetch failed"
ErrRead == "FileReader error"
ErrType == "TypeError"
ErrNoAudio == "No audio generated from the model."
ErrNoAudio1 == "No audio was generated."

\* ------------------------------------------------------ gateway responses
\* A TranslationResult with every required field, and objects that lack a
\* top-level field or a member of translations.
FullResult ==
    [kind |-> "object", originalText |-> "salam", detectedLanguage |-> "ar",
     translations |-> [en |-> "hello", ar |-> "salam-ar", fr |-> "bonjour"]]
NoOriginalText ==
    [kind |-> "object", detectedLanguage |-> "ar",
     translations |-> [en |-> "hello", ar |-> "salam-ar", fr |-> "bonjour"]]
NoDetectedLanguage ==
    [kind |-> "object", originalText |-> "salam",
     translations |-> [en |-> "hello", ar |-> "salam-ar", fr |-> "bonjour"]]
NoEn ==
    [kind |-> "object", originalText |-> "salam", detectedLanguage |-> "ar",
     translations |-> [ar |-> "salam-ar", fr |-> "bonjour"]]
FullReply ==
    [kind |-> "object", childOriginalText |-> "labas", translatedReply |-> "fine",
     targetLanguage |-> "English"]

\* Whether a parsed value has the fields the response schema requires.
HasRequiredFields(v) ==
    /\ v.kind = "object"
    /\ {"originalText", "detectedLanguage", "translations"} \subseteq DOMAIN v
    /\ {"en", "ar", "fr"} \subseteq DOMAIN v.translations

\* A response text is a sequence of tokens: the fence markers, white space,
\* and payload tokens.  JsonSource maps the payload tokens that are JSON
\* texts to the value JSON.parse gives for them.
FenceJson == "<fence>json"
Fence == "<fence>"
WhiteSpace == "\n"
JsonTokens ==
    {"{full}", "{noOriginalText}", "{noDetectedLanguage}", "{noEn}", "{reply}",
     "null"}
JsonSource(tok) ==
    CASE tok = "{full}" -> FullResult
      [] tok = "{noOriginalText}" -> NoOriginalText
      [] tok = "{noDetectedLanguage}" -> NoDetectedLanguage
      [] tok = "{noEn}" -> NoEn
      [] tok = "{reply}" -> FullReply
      [] OTHER -> NoResult
\* Payload tokens that are no JSON text: prose, and a truncated object.
Prose == "Sorry, I cannot"
Truncated == "{truncated"
\* The two ends of a JSON object with one string member, originalText; the
\* tokens between them are the characters of the string.
StrOpen == "{\"originalText\":\""
StrClose == "\"}"
\* Whether a token first character is an opening brace or bracket.
StartsWithBrace(tok) == tok \in (JsonTokens \ {"null"}) \cup {Truncated, StrOpen}

\* response.text: undefined when the response carries no text part.
Text(toks) == [defined |-> TRUE, text |-> toks]
NoText == [defined |-> FALSE, text |-> <<>>]
Fenced(tok) == <<FenceJson, WhiteSpace, tok, WhiteSpace, Fence>>

RECURSIVE RemoveAll(_, _)
RemoveAll(s, tok) ==
    IF s = <<>> THEN <<>>
    ELSE IF Head(s) = tok THEN RemoveAll(Tail(s), tok)
    ELSE <<Head(s)>> \o RemoveAll(Tail(s), tok)

RECURSIVE TrimStart(_)
TrimStart(s) ==
    IF s # <<>> /\ Head(s) = WhiteSpace THEN TrimStart(Tail(s)) ELSE s

RECURSIVE TrimEnd(_)
TrimEnd(s) ==
    IF s # <<>> /\ s[Len(s)] = WhiteSpace
    THEN TrimEnd(SubSeq(s, 1, Len(s) - 1)) ELSE s

Trim(s) == TrimEnd(TrimStart(s))

\* A cleaning that removes only the fence marker that names the language.
CleanedJsonFenceOnly(toks) == Trim(RemoveAll(toks, FenceJson))
\* responseText.replace(/<fence>json/g, '').replace(/<fence>/g, '').trim(),
\* <fence> standing for the three backquotes of a markdown code fence.
Cleaned(toks) == Trim(RemoveAll(RemoveAll(toks, FenceJson), Fence))

Ok(v) == [ok |-> TRUE, value |-> v, error |-> ""]
Throw(msg) == [ok |-> FALSE, value |-> NoResult, error |-> msg]

\* JSON.parse of a token sequence: one JSON text, white space around it.
\* Inside a string the fence markers are ordinary characters and a raw line
\* break is a syntax error.
JSONParse(toks) ==
    LET body == RemoveAll(toks, WhiteSpace)
        text == Trim(toks)
        chars == SubSeq(text, 2, Len(text) - 1)
    IN  IF Len(body) = 1 /\ body[1] \in JsonTokens
        THEN Ok(JsonSource(body[1]))
        ELSE IF /\ Len(text) >= 2
                /\ text[1] = StrOpen
                /\ text[Len(text)] = StrClose
                /\ \A i \in 1..Len(chars) : chars[i] \in {Fence, FenceJson}
        THEN Ok([kind |-> "object", originalText |-> chars])
        ELSE Throw("SyntaxError")

\* parseGeminiJson of the first draft (part_000).
parseGeminiJson0(responseText) ==
    IF ~responseText.defined \/ responseText.text = <<>>
    THEN Throw("Empty response from AI")
    ELSE IF JSONParse(Cleaned(responseText.text)).ok
         THEN JSONParse(Cleaned(responseText.text))
         ELSE Throw("AI returned invalid data format")

\* parseGeminiJson of the second draft (part_001).
parseGeminiJson1(responseText) ==
    IF ~responseText.defined \/ responseText.text = <<>>
    THEN Throw("The AI response was empty. Please try speaking again.")
    ELSE LET cleaned == Cleaned(responseText.text)
         IN  IF cleaned = <<>> \/ ~StartsWithBrace(cleaned[1])
             THEN Throw("AI returned an unexpected format.")
             ELSE IF JSONParse(cleaned).ok
                  THEN JSONParse(cleaned)
                  ELSE Throw("Failed to process the AI response data.")

parseGeminiJson(d, responseText) ==
    IF d = 0 THEN parseGeminiJson0(responseText) ELSE parseGeminiJson1(responseText)

\* The messages with which parseGeminiJson rejects a response.
FormatErrors ==
    {"Empty response from AI", "AI returned invalid data format",
     "The AI response was empty. Please try speaking again.",
     "AI returned an unexpected format.",
     "Failed to process the AI response data."}

\* Response texts the stub gateway returns to a transcribe+translate call and
\* to a reply call.
AudioResponses ==
    {NoText, Text(<<>>), Text(<<"{full}">>), Text(Fenced("{full}")),
     Text(<<Prose>>), Text(<<Truncated>>), Text(<<"null">>),
     Text(<<"{noOriginalText}">>), Text(<<"{noDetectedLanguage}">>),
     Text(<<"{noEn}">>)}
ReplyResponses ==
    {NoText, Text(<<"{reply}">>), Text(Fenced("{reply}")), Text(<<"null">>)}

\* ---------------------------------------------------------- speech synthesis
\* The parts of a speech response: a text part, a part with inline audio,
\* a part whose inline data is the empty string.
TextPart == [kind |-> "text", data |-> ""]
AudioPart(data) == [kind |-> "inlineData", data |-> data]
EmptyPart == [kind |-> "inlineData", data |-> ""]
\* part.inlineData?.data, truthy.
HasData(part) == part.kind = "inlineData" /\ part.data # ""

\* generateSpeech after its gateway call: the loop over the parts of the
\* first candidate (none when the response has no candidate or no content),
\* then the throw when audioData is still empty.
RECURSIVE audioData(_)
audioData(parts) ==
    IF parts = <<>> THEN ""
    ELSE IF HasData(Head(parts)) THEN Head(parts).data
    ELSE audioData(Tail(parts))
\* An extraction that looks at the first part only.
generateSpeechFirstPart(d, parts) ==
    IF parts # <<>> /\ HasData(parts[1]) THEN Ok(parts[1].data)
    ELSE Throw(IF d = 0 THEN ErrNoAudio ELSE ErrNoAudio1)
generateSpeech(d, parts) ==
    IF audioData(parts) # "" THEN Ok(audioData(parts))
    ELSE Throw(IF d = 0 THEN ErrNoAudio ELSE ErrNoAudio1)

\* ------------------------------------------------------ playback decoding
\* A Float32 value as an exact fraction.
Float(num, den) == [num |-> num, den |-> den]
\* An element of Int16Array over two bytes, low byte first, read unsigned.
Uint16(lo, hi) == lo + 256 * hi
\* An element of Int16Array over two bytes, low byte first.
Int16(lo, hi) ==
    IF lo + 256 * hi >= 32768 THEN lo + 256 * hi - 65536 ELSE lo + 256 * hi
\* new Int16Array(audioData.buffer, audioData.byteOffset, byteLength / 2):
\* the length is truncated to an integer.
dataInt16(bytes) ==
    [i \in 1..(Len(bytes) \div 2) |-> Int16(bytes[2 * i - 1], bytes[2 * i])]
\* float32Data[i] = dataInt16[i] / 32768.0, exact in a Float32.
float32Data(bytes) ==
    [i \in 1..(Len(bytes) \div 2) |-> Float(dataInt16(bytes)[i], 32768)]

\* ------------------------------------------------------------------- state
VARIABLES
    state,              \* the AppState of useState
    apiKey,             \* process.env.API_KEY
    draft,              \* which draft of geminiService the build bundles
    pending,            \* the bag of suspended continuations
    mediaRecorderRef,   \* mediaRecorderRef.current
    audioChunksRef,     \* audioChunksRef.current: the number of chunks held
    leakedStreams,      \* open microphone streams no reference leads to
    netCalls,           \* network invocations made so far (saturating)
    audioContextRef,    \* audio contexts created so far; the ref holds the last
    input,              \* the argument of a function of the source called alone
    output              \* what that call returns or throws

vars ==
    <<state, apiKey, draft, pending, mediaRecorderRef, audioChunksRef,
      leakedStreams, netCalls, audioContextRef, input, output>>

\* mediaRecorderRef.current: no recorder, a recorder that is recording, with
\* the arguments its onstop closure holds, or a stopped recorder, whose
\* closure is held by the continuation that dispatches its stop event.
\* No function is called alone.
NoCall == [fn |-> "none"]

NoRecorder == [rstate |-> "none", isReply |-> FALSE, target |-> Null]
Stopped == [rstate |-> "inactive", isReply |-> FALSE, target |-> Null]
Recorder(isReply, target) ==
    [rstate |-> "recording", isReply |-> isReply, target |-> target]

\* A suspended continuation.  kind names the call it awaits; isReply and
\* target are the arguments its closure holds.  stale and quiet are history:
\* stale marks a request the user has since superseded, quiet a primary
\* request that no user action has followed.
Task(kind, isReply, target) ==
    [kind |-> kind, isReply |-> isReply, target |-> target, stale |-> FALSE,
     quiet |-> FALSE]

Tasks == BagToSet(pending)
Add(b, t) == b (+) SetToBag({t})
Remove(b, t) == b (-) SetToBag({t})
Inc(n) == IF n < MaxNetCalls THEN n + 1 ELSE n

IsAudioRequest(t) == t.kind \in {"blobToBase64", "processAudio"} /\ ~t.isReply
IsReplyRequest(t) == t.kind \in {"blobToBase64", "processReply"} /\ t.isReply
\* The bag of F(t), t in `b`.
MapBag(b, F(_)) ==
    LET image == {F(t) : t \in BagToSet(b)}
        RECURSIVE Sum(_, _)
        Sum(S, u) == IF S = {} THEN 0
                     ELSE LET t == CHOOSE x \in S : TRUE
                          IN  (IF F(t) = u THEN b[t] ELSE 0) + Sum(S \ {t}, u)
    IN  [u \in image |-> Sum(BagToSet(b), u)]
\* The number of continuations of `b` that satisfy Is.
Count(b, Is(_)) ==
    LET Flag(t) == Is(t)
        flags == MapBag(b, Flag)
    IN  IF TRUE \in DOMAIN flags THEN flags[TRUE] ELSE 0
\* History: the requests of a branch that are in flight become superseded.
Supersede(b, Is(_)) ==
    LET Mark(t) == IF Is(t) THEN [t EXCEPT !.stale = TRUE] ELSE t
    IN  MapBag(b, Mark)
\* History: a user action follows every request in flight.
Disturb(b) ==
    LET Mark(t) == [t EXCEPT !.quiet = FALSE]
    IN  MapBag(b, Mark)

\* A value React renders as present (state.transcription && ...).
Truthy(v) == v.kind = "object"

\* ---------------------------------------------------------------- handlers
\* A check that takes the placeholder for a token.
checkApiKeyNoPlaceholder(key) == key \in {JSUndefined, ""}
\* checkApiKey: whether it throws API_KEY_MISSING.
checkApiKey(key) == key \in {JSUndefined, ""} \/ key = "undefined" \/ key = ""

toggleDarkMode(st) == [st EXCEPT !.darkMode = ~st.darkMode]
setLanguage(st, lang) == [st EXCEPT !.uiLanguage = lang]

\* startRecording, after the recorder has started, and its catch branch.
startRecordingStarted(st) == [st EXCEPT !.isRecording = TRUE, !.error = Null]
\* A catch of startRecording that leaves the session recording.
startRecordingCatchRecords(st) == [st EXCEPT !.error = MsgMic, !.isRecording = TRUE]
startRecordingCatch(st) == [st EXCEPT !.error = MsgMic]
stopRecording(st) == [st EXCEPT !.isRecording = FALSE]

\* handleProcessAudio: the update at entry, on success and in the catch.
handleProcessAudioStart(st) ==
    [st EXCEPT !.isLoading = TRUE, !.error = Null, !.transcription = NoResult,
               !.replyResult = NoResult]
handleProcessAudioDone(st, result) ==
    [st EXCEPT !.transcription = result, !.isLoading = FALSE]
\* A catch that leaves the session loading.
handleProcessAudioCatchKeepsLoading(st, message) ==
    [st EXCEPT !.error = IF message = ErrKey THEN MsgAudioKey ELSE MsgAudio]
handleProcessAudioCatch(st, message) ==
    [st EXCEPT !.isLoading = FALSE,
               !.error = IF message = ErrKey THEN MsgAudioKey ELSE MsgAudio]

\* handleProcessReply: the same three updates.
handleProcessReplyStart(st) ==
    [st EXCEPT !.isLoading = TRUE, !.error = Null, !.replyResult = NoResult]
\* A success update that leaves the session loading until the speech ends.
handleProcessReplyDoneKeepsLoading(st, result) == [st EXCEPT !.replyResult = result]
handleProcessReplyDone(st, result) ==
    [st EXCEPT !.replyResult = result, !.isLoading = FALSE]
handleProcessReplyCatch(st, message) ==
    [st EXCEPT !.isLoading = FALSE,
               !.error = IF message = ErrKey THEN MsgReplyKey ELSE MsgReply]

\* A catch of playTTS that drops the transcription on display.
playTTSCatchDiscards(st) == [st EXCEPT !.error = MsgSpeech, !.transcription = NoResult]
playTTSCatch(st) == [st EXCEPT !.error = MsgSpeech]

\* An entry into reply mode that keeps the reply it finds.
enterReplyModeKeepsReply(st, target) == [st EXCEPT !.replyTargetLanguage = target]
enterReplyMode(st, target) ==
    [st EXCEPT !.replyTargetLanguage = target, !.replyResult = NoResult]
exitReplyMode(st) ==
    [st EXCEPT !.replyTargetLanguage = Null, !.replyResult = NoResult]
\* A retry that also drops the transcription on display.
retryClearsResult(st) == [st EXCEPT !.error = Null, !.transcription = NoResult]
retry(st) == [st EXCEPT !.error = Null]

\* -------------------------------------------------------------------- Init
InitialState ==
    [uiLanguage |-> ARABIC, darkMode |-> FALSE, isRecording |-> FALSE,
     replyTargetLanguage |-> Null, audioBlob |-> Null, transcription |-> NoResult,
     replyResult |-> NoResult, isLoading |-> FALSE, error |-> Null]

Init ==
    /\ state = InitialState
    /\ apiKey \in ApiKeys
    /\ draft \in {0, 1}
    /\ pending = EmptyBag
    /\ mediaRecorderRef = NoRecorder
    /\ audioChunksRef = 0
    /\ leakedStreams = 0
    /\ netCalls = 0
    /\ audioContextRef = 0
    /\ input = NoCall
    /\ output = NoCall

\* What each render shows.
ReplyMode == state.replyTargetLanguage # Null
ShowsUpload == ~ReplyMode /\ ~state.isRecording
ShowsRetry == ~ReplyMode /\ state.error # Null
ShowsCards == ~ReplyMode /\ Truthy(state.transcription) /\ ~state.isLoading
ShowsReplyPlay == ReplyMode /\ Truthy(state.replyResult) /\ ~state.isLoading
Room == BagCardinality(pending) < MaxPending

\* ------------------------------------------------------------ user actions
ToggleDarkMode ==
    /\ state' = toggleDarkMode(state)
    /\ UNCHANGED <<apiKey, draft, input, output, audioContextRef, mediaRecorderRef, audioChunksRef, leakedStreams, netCalls>>
    /\ pending' = Disturb(pending)

SetLanguage(lang) ==
    /\ state' = setLanguage(state, lang)
    /\ UNCHANGED <<apiKey, draft, input, output, audioContextRef, mediaRecorderRef, audioChunksRef, leakedStreams, netCalls>>
    /\ pending' = Disturb(pending)

\* The record button of either section while not recording: startRecording
\* suspends in getUserMedia, its closure holding the state of this render.
StartRecording(isReply) ==
    /\ ~state.isRecording
    /\ isReply = ReplyMode
    /\ Room
    /\ pending' = Add(Disturb(pending),
                      Task("getUserMedia", isReply, state.replyTargetLanguage))
    /\ UNCHANGED <<state, apiKey, draft, input, output, audioContextRef, mediaRecorderRef, audioChunksRef, leakedStreams, netCalls>>

\* The record button while recording: stopRecording.  The recorder's
\* dataavailable and stop events are dispatched later.
StopRecording ==
    /\ state.isRecording
    /\ mediaRecorderRef.rstate = "recording"
    /\ Room
    /\ mediaRecorderRef' = Stopped
    /\ state' = stopRecording(state)
    /\ pending' = Add(Disturb(pending),
                      Task("stop", mediaRecorderRef.isReply, mediaRecorderRef.target))
    /\ UNCHANGED <<apiKey, draft, input, output, audioContextRef, audioChunksRef, leakedStreams, netCalls>>

EnterReplyMode(target) ==
    /\ ShowsCards
    /\ state' = enterReplyMode(state, target)
    /\ UNCHANGED <<apiKey, draft, input, output, audioContextRef, mediaRecorderRef, audioChunksRef, leakedStreams, netCalls>>
    /\ pending' = Disturb(pending)

ExitReplyMode ==
    /\ ReplyMode
    /\ state' = exitReplyMode(state)
    /\ pending' = Disturb(Supersede(pending, IsReplyRequest))
    /\ UNCHANGED <<apiKey, draft, input, output, audioContextRef, mediaRecorderRef, audioChunksRef, leakedStreams, netCalls>>

Retry ==
    /\ ShowsRetry
    /\ state' = retry(state)
    /\ UNCHANGED <<apiKey, draft, input, output, audioContextRef, mediaRecorderRef, audioChunksRef, leakedStreams, netCalls>>
    /\ pending' = Disturb(pending)

\* handleProcessAudio(blob) up to its first await, called with `b` pending:
\* the entry update, then checkApiKey, whose throw the catch handles in the
\* same turn, else the suspension in blobToBase64.
HandleProcessAudio(b) ==
    IF checkApiKey(apiKey)
    THEN /\ state' = handleProcessAudioCatch(handleProcessAudioStart(state), ErrKey)
         /\ pending' = b
    ELSE /\ state' = handleProcessAudioStart(state)
         /\ pending' = Add(Supersede(b, IsAudioRequest),
                           [Task("blobToBase64", FALSE, Null) EXCEPT !.quiet = TRUE])

\* handleProcessReply(blob, target) up to its first await.
HandleProcessReply(b, target) ==
    IF checkApiKey(apiKey)
       THEN /\ state' = handleProcessReplyCatch(handleProcessReplyStart(state), ErrKey)
            /\ pending' = b
       ELSE /\ state' = handleProcessReplyStart(state)
            /\ pending' = Add(b, Task("blobToBase64", TRUE, target))

\* The file input, a file chosen: handleProcessAudio(file).
UploadFile ==
    /\ ShowsUpload
    /\ checkApiKey(apiKey) \/ Room
    /\ HandleProcessAudio(Disturb(pending))
    /\ UNCHANGED <<apiKey, draft, input, output, audioContextRef, mediaRecorderRef, audioChunksRef, leakedStreams, netCalls>>

\* A Listen button: playTTS up to its await of generateSpeech.
PlayTTS ==
    /\ ShowsCards \/ ShowsReplyPlay
    /\ checkApiKey(apiKey) \/ Room
    /\ IF checkApiKey(apiKey)
       THEN /\ state' = playTTSCatch(state)
            /\ pending' = Disturb(pending)
            /\ netCalls' = netCalls
       ELSE /\ state' = state
            /\ pending' = Add(Disturb(pending), Task("generateSpeech", FALSE, Null))
            /\ netCalls' = Inc(netCalls)
    /\ UNCHANGED <<apiKey, draft, input, output, audioContextRef, mediaRecorderRef, audioChunksRef, leakedStreams>>

\* ----------------------------------------------------------- continuations
Awaits(t, kind) == t \in Tasks /\ t.kind = kind

\* getUserMedia resolves: the recorder is made current and started.  A
\* recorder it replaces while recording keeps its stream open.
MicGranted(t) ==
    /\ Awaits(t, "getUserMedia")
    /\ mediaRecorderRef.rstate = "recording" => leakedStreams < MaxOrphans
    /\ mediaRecorderRef' = Recorder(t.isReply, t.target)
    /\ audioChunksRef' = 0
    /\ leakedStreams' =
          IF mediaRecorderRef.rstate = "recording" THEN leakedStreams + 1 ELSE leakedStreams
    /\ state' = startRecordingStarted(state)
    /\ pending' = Remove(pending, t)
    /\ UNCHANGED <<apiKey, draft, input, output, audioContextRef, netCalls>>

\* getUserMedia rejects.
MicDenied(t) ==
    /\ Awaits(t, "getUserMedia")
    /\ state' = startRecordingCatch(state)
    /\ pending' = Remove(pending, t)
    /\ UNCHANGED <<apiKey, draft, input, output, audioContextRef, mediaRecorderRef, audioChunksRef, leakedStreams, netCalls>>

\* getUserMedia resolves and the MediaRecorder constructor throws: the
\* stream stays open and nothing refers to it.
RecorderFailed(t) ==
    /\ Awaits(t, "getUserMedia")
    /\ leakedStreams < MaxOrphans
    /\ leakedStreams' = leakedStreams + 1
    /\ state' = startRecordingCatch(state)
    /\ pending' = Remove(pending, t)
    /\ UNCHANGED <<apiKey, draft, input, output, audioContextRef, mediaRecorderRef, audioChunksRef, netCalls>>

\* The stopped recorder's events: ondataavailable with `size` bytes, then
\* onstop, which builds the clip from the chunks held and processes it.
RecorderStopped(t, size) ==
    /\ Awaits(t, "stop")
    /\ LET chunks == IF size > 0 THEN audioChunksRef + 1 ELSE audioChunksRef
       IN  /\ audioChunksRef' = chunks
           /\ IF t.isReply /\ t.target # Null
              THEN HandleProcessReply(Remove(pending, t), t.target)
              ELSE HandleProcessAudio(Remove(pending, t))
    /\ UNCHANGED <<apiKey, draft, input, output, audioContextRef, mediaRecorderRef, leakedStreams, netCalls>>

\* blobToBase64 resolves: the gateway call is made.
BlobEncoded(t) ==
    /\ Awaits(t, "blobToBase64")
    /\ pending' = Add(Remove(pending, t),
          [t EXCEPT !.kind = IF t.isReply THEN "processReply" ELSE "processAudio"])
    /\ netCalls' = Inc(netCalls)
    /\ UNCHANGED <<state, apiKey, draft, input, output, audioContextRef, mediaRecorderRef, audioChunksRef, leakedStreams>>

\* blobToBase64 rejects (reader.onerror): the handler's catch.
BlobFailed(t) ==
    /\ Awaits(t, "blobToBase64")
    /\ state' = IF t.isReply THEN handleProcessReplyCatch(state, ErrRead)
                             ELSE handleProcessAudioCatch(state, ErrRead)
    /\ pending' = Remove(pending, t)
    /\ UNCHANGED <<apiKey, draft, input, output, audioContextRef, mediaRecorderRef, audioChunksRef, leakedStreams, netCalls>>

\* processAudio returns: parseGeminiJson(response.text), then the success
\* update, or the catch when parsing throws.
AudioResponse(t, response) ==
    /\ Awaits(t, "processAudio")
    /\ LET parsed == parseGeminiJson(draft, response)
       IN  state' = IF parsed.ok THEN handleProcessAudioDone(state, parsed.value)
                                 ELSE handleProcessAudioCatch(state, parsed.error)
    /\ pending' = Remove(pending, t)
    /\ UNCHANGED <<apiKey, draft, input, output, audioContextRef, mediaRecorderRef, audioChunksRef, leakedStreams, netCalls>>

\* processAudio rejects (network or remote failure).
AudioError(t) ==
    /\ Awaits(t, "processAudio")
    /\ state' = handleProcessAudioCatch(state, ErrNetwork)
    /\ pending' = Remove(pending, t)
    /\ UNCHANGED <<apiKey, draft, input, output, audioContextRef, mediaRecorderRef, audioChunksRef, leakedStreams, netCalls>>

\* processReply returns.  On success the result is stored and playTTS is
\* called with result.translatedReply, which throws a TypeError inside the
\* try when the result is null; otherwise playTTS suspends in generateSpeech.
ReplyResponse(t, response) ==
    /\ Awaits(t, "processReply")
    /\ LET parsed == parseGeminiJson(draft, response)
       IN  IF ~parsed.ok
           THEN /\ state' = handleProcessReplyCatch(state, parsed.error)
                /\ pending' = Remove(pending, t)
                /\ netCalls' = netCalls
           ELSE IF ~Truthy(parsed.value)
           THEN /\ state' = handleProcessReplyCatch(
                                handleProcessReplyDone(state, parsed.value), ErrType)
                /\ pending' = Remove(pending, t)
                /\ netCalls' = netCalls
           ELSE /\ state' = handleProcessReplyDone(state, parsed.value)
                /\ pending' = Add(Remove(pending, t),
                                  Task("generateSpeech", TRUE, Null))
                /\ netCalls' = Inc(netCalls)
    /\ UNCHANGED <<apiKey, draft, input, output, audioContextRef, mediaRecorderRef, audioChunksRef, leakedStreams>>

\* processReply rejects.
ReplyError(t) ==
    /\ Awaits(t, "processReply")
    /\ state' = handleProcessReplyCatch(state, ErrNetwork)
    /\ pending' = Remove(pending, t)
    /\ UNCHANGED <<apiKey, draft, input, output, audioContextRef, mediaRecorderRef, audioChunksRef, leakedStreams, netCalls>>

\* A playback that makes a context of its own every time.
audioContextAlways(n) == n + 1
\* if (!audioContextRef.current) audioContextRef.current = new AudioContext.
audioContext(n) == IF n = 0 THEN 1 ELSE n

\* generateSpeech returns audio that is decoded and played: the context is
\* created if there is none, the buffer is filled and its source started.
SpeechPlayed(t) ==
    /\ Awaits(t, "generateSpeech")
    /\ audioContext(audioContextRef) <= MaxContexts
    /\ audioContextRef' = audioContext(audioContextRef)
    /\ pending' = Remove(pending, t)
    /\ UNCHANGED <<state, apiKey, draft, input, output, mediaRecorderRef, audioChunksRef, leakedStreams, netCalls>>

\* generateSpeech throws (no audio part, remote failure) or atob throws on
\* its result: the catch of playTTS, before any context is looked for.
SpeechFailed(t) ==
    /\ Awaits(t, "generateSpeech")
    /\ state' = playTTSCatch(state)
    /\ pending' = Remove(pending, t)
    /\ UNCHANGED <<apiKey, draft, input, output, audioContextRef, mediaRecorderRef, audioChunksRef, leakedStreams, netCalls>>

\* generateSpeech returns audio of less than one sample: the context is
\* created if there is none, then createBuffer throws on the length 0 and
\* the catch of playTTS runs.
BufferFailed(t) ==
    /\ Awaits(t, "generateSpeech")
    /\ audioContext(audioContextRef) <= MaxContexts
    /\ audioContextRef' = audioContext(audioContextRef)
    /\ state' = playTTSCatch(state)
    /\ pending' = Remove(pending, t)
    /\ UNCHANGED <<apiKey, draft, input, output, mediaRecorderRef, audioChunksRef, leakedStreams, netCalls>>

\* ------------------------------------------------------------------- Next
\* The continuations, each for any task that awaits it.
OnMicGranted == \E t \in Tasks : MicGranted(t)
OnMicDenied == \E t \in Tasks : MicDenied(t)
OnRecorderFailed == \E t \in Tasks : RecorderFailed(t)
OnRecorderStopped == \E t \in Tasks, size \in {0, 1} : RecorderStopped(t, size)
OnBlobEncoded == \E t \in Tasks : BlobEncoded(t)
OnBlobFailed == \E t \in Tasks : BlobFailed(t)
OnAudioResponse == \E t \in Tasks, response \in AudioResponses : AudioResponse(t, response)
OnAudioError == \E t \in Tasks : AudioError(t)
OnReplyResponse == \E t \in Tasks, response \in ReplyResponses : ReplyResponse(t, response)
OnReplyError == \E t \in Tasks : ReplyError(t)
OnSpeechPlayed == \E t \in Tasks : SpeechPlayed(t)
OnSpeechFailed == \E t \in Tasks : SpeechFailed(t)
OnBufferFailed == \E t \in Tasks : BufferFailed(t)

Next ==
    \/ ToggleDarkMode
    \/ \E lang \in AppLanguage : SetLanguage(lang)
    \/ \E isReply \in BOOLEAN : StartRecording(isReply)
    \/ StopRecording
    \/ UploadFile
    \/ PlayTTS
    \/ \E target \in {ENGLISH, FRENCH} : EnterReplyMode(target)
    \/ ExitReplyMode
    \/ Retry
    \/ OnMicGranted
    \/ OnMicDenied
    \/ OnRecorderFailed
    \/ OnRecorderStopped
    \/ OnBlobEncoded
    \/ OnBlobFailed
    \/ OnAudioResponse
    \/ OnAudioError
    \/ OnReplyResponse
    \/ OnReplyError
    \/ OnSpeechPlayed
    \/ OnSpeechFailed
    \/ OnBufferFailed

Spec == Init /\ [][Next]_vars

\* ------------------------------------------------- functions called alone
\* The sequences over S of length at most n.
RECURSIVE SeqsUpTo(_, _)
SeqsUpTo(S, n) ==
    IF n = 0 THEN {<<>>}
    ELSE LET shorter == SeqsUpTo(S, n - 1)
         IN  shorter \cup {Append(q, x) : q \in {r \in shorter : Len(r) = n - 1}, x \in S}

\* Bytes of a Uint8Array: the ends of the range and both sides of the sign bit.
Bytes == {0, 1, 127, 128, 255}
\* Tokens of a response text, JSON payloads, and a payload inside a fence:
\* with the language named, without it, and without line breaks.
ParseTokens ==
    {FenceJson, Fence, WhiteSpace, "{full}", "null", Prose, Truncated, StrOpen,
     StrClose}
Payloads ==
    {<<"{full}">>, <<"{reply}">>, <<"null">>, <<StrOpen, StrClose>>,
     <<StrOpen, Fence, StrClose>>}
Wrappings(p) ==
    {<<FenceJson, WhiteSpace>> \o p \o <<WhiteSpace, Fence>>,
     <<Fence, WhiteSpace>> \o p \o <<WhiteSpace, Fence>>,
     <<FenceJson>> \o p \o <<Fence>>}
\* Parts of a speech response.
Parts == {TextPart, AudioPart("UklGRg=="), AudioPart("AAAA"), EmptyPart}

DecodeInputs == {[fn |-> "decode", bytes |-> b] : b \in SeqsUpTo(Bytes, MaxBytes)}
ParseInputs ==
    {[fn |-> "parse", responseText |-> r] :
        r \in {NoText} \cup {Text(t) : t \in SeqsUpTo(ParseTokens, MaxTokens)}
                       \cup {Text(w) : w \in UNION {Wrappings(p) : p \in Payloads}}}
SpeechInputs == {[fn |-> "speech", parts |-> q] : q \in SeqsUpTo(Parts, MaxParts)}

\* Everything but the result of the call.
callFrame ==
    <<state, apiKey, draft, pending, mediaRecorderRef, audioChunksRef,
      leakedStreams, netCalls, audioContextRef, input>>

CallInit ==
    /\ state = InitialState
    /\ apiKey = "AIza"
    /\ draft \in {0, 1}
    /\ pending = EmptyBag
    /\ mediaRecorderRef = NoRecorder
    /\ audioChunksRef = 0
    /\ leakedStreams = 0
    /\ netCalls = 0
    /\ audioContextRef = 0
    /\ input \in DecodeInputs \cup ParseInputs \cup SpeechInputs
    /\ output = NoCall

\* The decoding of playTTS applied to the bytes of a Uint8Array.
CallDecode ==
    /\ input.fn = "decode"
    /\ output = NoCall
    /\ output' = [fn |-> "decode", samples |-> float32Data(input.bytes)]
    /\ UNCHANGED callFrame

\* parseGeminiJson of the bundled draft applied to a response text.
CallParseGeminiJson ==
    /\ input.fn = "parse"
    /\ output = NoCall
    /\ output' = [fn |-> "parse", result |-> parseGeminiJson(draft, input.responseText)]
    /\ UNCHANGED callFrame

\* generateSpeech of the bundled draft applied to the parts of a response.
CallGenerateSpeech ==
    /\ input.fn = "speech"
    /\ output = NoCall
    /\ output' = [fn |-> "speech", result |-> generateSpeech(draft, input.parts)]
    /\ UNCHANGED callFrame

CallNext == CallDecode \/ CallParseGeminiJson \/ CallGenerateSpeech

CallSpec == CallInit /\ [][CallNext]_vars

\* ------------------------------------------------------- requests, fairness
\* The steps that start, settle or supersede a request or a playback.
\* toggleDarkMode and setLanguage write only darkMode and language, which no
\* guard and no completion reads, so the claims about requests and playback
\* are checked without them.
RequestNext ==
    \/ \E isReply \in BOOLEAN : StartRecording(isReply)
    \/ StopRecording
    \/ UploadFile
    \/ PlayTTS
    \/ \E target \in {ENGLISH, FRENCH} : EnterReplyMode(target)
    \/ ExitReplyMode
    \/ Retry
    \/ OnMicGranted
    \/ OnMicDenied
    \/ OnRecorderFailed
    \/ OnRecorderStopped
    \/ OnBlobEncoded
    \/ OnBlobFailed
    \/ OnAudioResponse
    \/ OnAudioError
    \/ OnReplyResponse
    \/ OnReplyError
    \/ OnSpeechPlayed
    \/ OnSpeechFailed
    \/ OnBufferFailed

RequestSpec == Init /\ [][RequestNext]_vars

\* Every clip encoding and every gateway call eventually resolves or
\* rejects: FileReader and fetch always settle their promises.  Nothing is
\* assumed of the user, the microphone prompt or the playback.
Settles ==
    /\ WF_vars(OnBlobEncoded \/ OnBlobFailed)
    /\ WF_vars(OnAudioResponse \/ OnAudioError)
    /\ WF_vars(OnReplyResponse \/ OnReplyError)

LoadingSpec == RequestSpec /\ Settles

\* ------------------------------------------------------------------ claims
\* The capability token is absent: empty, undefined or the placeholder.
KeyMissing == apiKey \in {JSUndefined, "", "undefined"}

GatewayKinds == {"blobToBase64", "processAudio", "processReply", "generateSpeech"}
IsGatewayTask(t) == t.kind \in GatewayKinds
AudioInFlight(t) == t.kind = "processAudio"
ReplyInFlight(t) == t.kind = "processReply"

\* The response of a gateway request arrives.
GatewayResponse(t) ==
    \/ \E r \in AudioResponses : AudioResponse(t, r)
    \/ AudioError(t)
    \/ \E r \in ReplyResponses : ReplyResponse(t, r)
    \/ ReplyError(t)

\* C1: the late response of a superseded request (a reply request the user
\* has dismissed, a primary request a newer one has followed) writes none of
\* transcription, replyResult, isLoading and error.
C1_LateResponseDiscarded ==
    [][\A t \in Tasks :
          t.stale /\ GatewayResponse(t) =>
              /\ state'.transcription = state.transcription
              /\ state'.replyResult = state.replyResult
              /\ state'.isLoading = state.isLoading
              /\ state'.error = state.error]_vars

\* C2: at most one primary-branch and at most one reply-branch gateway
\* request is in flight at any moment.
C2_OneRequestPerBranch ==
    /\ Count(pending, AudioInFlight) <= 1
    /\ Count(pending, ReplyInFlight) <= 1

\* C3: while a primary request is in flight, transcription and replyResult
\* are both null.
C3_NoStaleDisplay ==
    (\E t \in Tasks : IsAudioRequest(t)) =>
        state.transcription = NoResult /\ state.replyResult = NoResult

\* C4: replyResult is non-null only while replyTargetLanguage is non-null.
C4_ReplyResultOnlyInReplyMode ==
    state.replyResult # NoResult => state.replyTargetLanguage # Null

\* C5: after exitReplyMode, replyTargetLanguage and replyResult are null
\* and the session is neither recording nor loading.
C5_DismissReturnsToIdle ==
    [][ExitReplyMode =>
          /\ state'.replyTargetLanguage = Null
          /\ state'.replyResult = NoResult
          /\ ~state'.isRecording
          /\ ~state'.isLoading]_vars

\* A response whose payload is an object that lacks a required field.
MissingField(r) ==
    /\ r.defined
    /\ JSONParse(Cleaned(r.text)).ok
    /\ JSONParse(Cleaned(r.text)).value.kind = "object"
    /\ ~HasRequiredFields(JSONParse(Cleaned(r.text)).value)

\* C6: a gateway response that lacks a required field makes the parsing
\* fail with a format error and the session end in Error, not in Result.
C6_MissingFieldIsError ==
    [][\A t \in Tasks, r \in AudioResponses :
          MissingField(r) /\ AudioResponse(t, r) =>
              /\ parseGeminiJson(draft, r).error \in FormatErrors
              /\ state'.error # Null
              /\ state'.transcription = NoResult]_vars

AudioFailure(t) ==
    \/ AudioError(t)
    \/ ~t.isReply /\ BlobFailed(t)
    \/ \E r \in AudioResponses : ~parseGeminiJson(draft, r).ok /\ AudioResponse(t, r)
\* A primary request fails as a missing credential.
AudioCredentialFailure ==
    /\ KeyMissing
    /\ \/ UploadFile
       \/ \E t \in Tasks, size \in {0, 1} : ~t.isReply /\ RecorderStopped(t, size)

\* C8: a failed primary request leaves the session in Error with isLoading
\* false and transcription null; the message is the credential message
\* exactly when the failure is a missing credential.
C8_FailureEndsInError ==
    [][/\ (\E t \in Tasks : AudioFailure(t)) =>
              /\ ~state'.isLoading
              /\ state'.transcription = NoResult
              /\ state'.error = MsgAudio
       /\ AudioCredentialFailure =>
              /\ ~state'.isLoading
              /\ state'.transcription = NoResult
              /\ state'.error = MsgAudioKey]_vars

\* A well-formed response, bare or fenced.
WellFormed(r) == r \in {Text(<<"{full}">>), Text(Fenced("{full}"))}

\* C9: a primary request that no user action has followed and that gets a
\* well-formed response R is answered in Loading and ends in Result with
\* transcription R, isLoading false and error null.
C9_SuccessEndsInResult ==
    [][\A t \in Tasks, r \in AudioResponses :
          t.quiet /\ WellFormed(r) /\ AudioResponse(t, r) =>
              /\ state.isLoading
              /\ state'.transcription = FullResult
              /\ ~state'.isLoading
              /\ state'.error = Null]_vars

\* C10: enterReplyMode(L) sets replyTargetLanguage to L and replyResult to
\* null and leaves every other field of the session as it was.
C10_EnterReplyModeFrame ==
    [][\A L \in {ENGLISH, FRENCH} :
          EnterReplyMode(L) =>
              /\ state'.replyTargetLanguage = L
              /\ state'.replyResult = NoResult
              /\ state'.transcription = state.transcription
              /\ state'.isLoading = state.isLoading
              /\ state'.isRecording = state.isRecording
              /\ state'.error = state.error
              /\ state'.uiLanguage = state.uiLanguage
              /\ state'.darkMode = state.darkMode
              /\ state'.audioBlob = state.audioBlob]_vars

\* C10, witness: reply mode for French, entered from a session that was
\* recording in dark mode with an error and a transcription on display.
C10_Witness ==
    /\ state.replyTargetLanguage = FRENCH
    /\ state.replyResult = NoResult
    /\ state.transcription = FullResult
    /\ state.isRecording
    /\ state.error = MsgSpeech
    /\ state.uiLanguage = ENGLISH
    /\ state.darkMode

\* The speech synthesis a successful reply starts by itself.
IsAutoSpeech(t) == t.kind = "generateSpeech" /\ t.isReply
\* A failure on the text-to-speech path: of a synthesis in flight, or of the
\* credential check of playTTS.
SpeechFailure ==
    \/ \E t \in Tasks : SpeechFailed(t)
    \/ \E t \in Tasks : BufferFailed(t)
    \/ checkApiKey(apiKey) /\ PlayTTS

\* C11: a failure on the text-to-speech path, of a playback the user or a
\* reply started, discards neither transcription nor replyResult.
C11_SpeechFailureKeepsResults ==
    [][SpeechFailure =>
          /\ state'.transcription = state.transcription
          /\ state'.replyResult = state.replyResult]_vars

\* C11, witness: a speech failure is reported with a transcription and a
\* reply result both populated.
C11_Witness ==
    /\ state.error = MsgSpeech
    /\ Truthy(state.transcription)
    /\ Truthy(state.replyResult)

\* C12: the failure of the speech synthesis that follows a successful reply
\* changes no field of the session.
C12_AutoSpeechFailureOnlyLogged ==
    [][\A t \in Tasks : IsAutoSpeech(t) /\ SpeechFailed(t) => state' = state]_vars

\* A reply response that parses to a reply result.
ReplySuccess(r) ==
    parseGeminiJson(draft, r).ok /\ Truthy(parseGeminiJson(draft, r).value)

\* C13: on a successful reply response in reply mode the session stores
\* replyResult and stops loading in the step that starts the speech
\* synthesis, which is still in flight afterwards; the end of that synthesis
\* changes neither replyResult nor isLoading.
C13_ReplyResultBeforeSpeech ==
    [][/\ \A t \in Tasks, r \in ReplyResponses :
             ReplyMode /\ ReplyInFlight(t) /\ ReplySuccess(r) /\ ReplyResponse(t, r) =>
                 /\ state'.replyResult = parseGeminiJson(draft, r).value
                 /\ ~state'.isLoading
                 /\ state'.replyTargetLanguage = state.replyTargetLanguage
                 /\ Count(pending', IsAutoSpeech) = Count(pending, IsAutoSpeech) + 1
       /\ \A t \in Tasks :
             IsAutoSpeech(t) /\ SpeechPlayed(t) =>
                 /\ state'.replyResult = state.replyResult
                 /\ state'.isLoading = state.isLoading]_vars

\* C13, witness: the reply result is on display, the session is not loading
\* and the synthesis the reply started has not resolved.
C13_Witness ==
    /\ ReplyMode
    /\ state.replyResult = FullReply
    /\ ~state.isLoading
    /\ Count(pending, IsAutoSpeech) = 1

\* A reply request fails: in the credential check, in the encoding, in the
\* gateway call, or in the parsing or the use of its response.
ReplyFailure ==
    \/ /\ checkApiKey(apiKey)
       /\ \E t \in Tasks, size \in {0, 1} :
             t.isReply /\ t.target # Null /\ RecorderStopped(t, size)
    \/ \E t \in Tasks : t.isReply /\ BlobFailed(t)
    \/ \E t \in Tasks : ReplyError(t)
    \/ \E t \in Tasks, r \in ReplyResponses : ~ReplySuccess(r) /\ ReplyResponse(t, r)

\* C14: a failed reply request leaves replyTargetLanguage and transcription
\* as they were, replyResult null, isLoading false and error non-null.
C14_ReplyFailureToReplyIdle ==
    [][ReplyFailure =>
          /\ state'.replyTargetLanguage = state.replyTargetLanguage
          /\ state'.replyResult = NoResult
          /\ ~state'.isLoading
          /\ state'.error # Null
          /\ state'.transcription = state.transcription]_vars

\* C15: once the session is no longer recording, no microphone stream that
\* was acquired remains open.
C15_StreamReleased == ~state.isRecording => leakedStreams = 0

\* The stop of a recording that captured nothing: no chunk is held and the
\* last dataavailable event carries zero bytes.
EmptyStop(t) == audioChunksRef = 0 /\ RecorderStopped(t, 0)

\* C16: the stop of a recording that captured zero bytes is a no-op: no
\* gateway request is issued, the session does not start loading and the
\* transcription is kept.
C16_EmptyStopIsNoOp ==
    [][\A t \in Tasks :
          EmptyStop(t) =>
              /\ Count(pending', IsGatewayTask) = Count(pending, IsGatewayTask)
              /\ state'.isLoading = state.isLoading
              /\ state'.transcription = state.transcription]_vars

\* C17: a denied microphone sets the capture error and changes no other
\* field of the session (isRecording stays false when it was), acquires no
\* recorder and no stream, and leaves the start of a recording enabled.
C17_MicDeniedIsSurfaced ==
    [][(\E t \in Tasks : MicDenied(t)) =>
          /\ state' = [state EXCEPT !.error = MsgMic]
          /\ ~state.isRecording => ~state'.isRecording
          /\ mediaRecorderRef' = mediaRecorderRef
          /\ audioChunksRef' = audioChunksRef
          /\ leakedStreams' = leakedStreams
          /\ BagCardinality(pending') = BagCardinality(pending) - 1]_vars

\* C17, witness: the capture error is on display in a session that is not
\* recording, holds no recorder and no stream, and awaits nothing.
C17_Witness ==
    /\ state.error = MsgMic
    /\ ~state.isRecording
    /\ mediaRecorderRef = NoRecorder
    /\ leakedStreams = 0
    /\ pending = EmptyBag

\* The continuations of `b` with the history flags erased.
Forgotten(b) ==
    LET Erase(t) == [t EXCEPT !.stale = FALSE, !.quiet = FALSE]
    IN  MapBag(b, Erase)

\* C18: retry clears the error and nothing else: every other field of the
\* session is kept, and no request, recording or playback is started.
C18_RetryClearsErrorOnly ==
    [][Retry =>
          /\ state' = [state EXCEPT !.error = Null]
          /\ Forgotten(pending') = Forgotten(pending)
          /\ mediaRecorderRef' = mediaRecorderRef
          /\ audioChunksRef' = audioChunksRef
          /\ leakedStreams' = leakedStreams
          /\ netCalls' = netCalls]_vars

\* C18, witness: the retry button is on display over a transcription while
\* the session is loading and recording.
C18_Witness ==
    /\ ShowsRetry
    /\ Truthy(state.transcription)
    /\ state.isLoading
    /\ state.isRecording
    /\ pending # EmptyBag

\* C19: the session is never recording and loading at once.
C19_RecordingExcludesLoading == ~(state.isRecording /\ state.isLoading)

\* C20: when startRecording succeeds, the session enters Recording with
\* transcription null.
C20_RecordingDiscardsResult ==
    [][OnMicGranted => state'.transcription = NoResult]_vars

\* C24: over any interleaving of playback calls at most one audio context is
\* ever created, and one is created only by a playback that has got its
\* audio and reached the decoding.
C24_OneAudioContext ==
    /\ [](audioContextRef <= 1)
    /\ [][audioContextRef' # audioContextRef =>
              OnSpeechPlayed \/ OnBufferFailed]_vars

\* C24, witness: the context exists and two more playbacks are in flight
\* at once.
C24_Witness ==
    /\ audioContextRef = 1
    /\ Count(pending, IsAutoSpeech) = 1
    /\ BagCardinality(pending) = 2
    /\ \A t \in Tasks : t.kind = "generateSpeech"

\* The test of onstop on the arguments its closure holds: whether the clip
\* goes to handleProcessReply.
ToReply(closure) == closure.isReply /\ closure.target # Null

\* C25: the recording that is stopped goes to the reply branch, with the
\* current replyTargetLanguage as target, if and only if replyTargetLanguage
\* is non-null when it is stopped, and to the primary branch otherwise.
C25_DispatchByCurrentMode ==
    [][StopRecording =>
          /\ ToReply(mediaRecorderRef) <=> ReplyMode
          /\ ReplyMode => mediaRecorderRef.target = state.replyTargetLanguage]_vars

\* A primary request completes: its encoding fails, or its gateway call
\* rejects or returns.
AudioCompletion(t) ==
    \/ ~t.isReply /\ BlobFailed(t)
    \/ AudioError(t)
    \/ \E r \in AudioResponses : AudioResponse(t, r)

\* C27: when a primary request that no user action has followed completes,
\* with nothing else in flight, exactly one of transcription and error is
\* non-null.
C27_ResultOrError ==
    [][\A t \in Tasks :
          /\ IsAudioRequest(t)
          /\ t.quiet
          /\ pending = SetToBag({t})
          /\ AudioCompletion(t)
          => (state'.transcription # NoResult) # (state'.error # Null)]_vars

\* The signed 16-bit value of two bytes, low byte first, in two's complement.
Signed16(lo, hi) == lo + 256 * hi - (IF hi >= 128 THEN 65536 ELSE 0)

\* C21: for a byte sequence of even length the decoding yields half as many
\* samples as bytes, each the signed 16-bit value s of its two bytes divided
\* by 32768 and within [-1, 1]; 0 gives exactly 0, -32768 exactly -1, and
\* 32767 the largest sample, 32767/32768, just below 1.
C21_DecodeSamples ==
    output.fn = "decode" /\ Len(input.bytes) % 2 = 0 =>
        /\ 2 * Len(output.samples) = Len(input.bytes)
        /\ \A i \in 1..Len(output.samples) :
              LET s == Signed16(input.bytes[2 * i - 1], input.bytes[2 * i])
                  x == output.samples[i]
              IN  /\ x.den = 32768 /\ x.num = s
                  /\ -x.den <= x.num /\ x.num <= x.den
                  /\ s = 0 => x.num = 0
                  /\ s = -32768 => x.num = -x.den
                  /\ s = 32767 => x.num = 32767 /\ x.num < x.den

\* C21 as stated: the same, with 32767 giving exactly 1.
C21_MaxSampleIsOne ==
    output.fn = "decode" /\ Len(input.bytes) % 2 = 0 =>
        /\ 2 * Len(output.samples) = Len(input.bytes)
        /\ \A i \in 1..Len(output.samples) :
              LET s == Signed16(input.bytes[2 * i - 1], input.bytes[2 * i])
                  x == output.samples[i]
              IN  /\ x.den = 32768 /\ x.num = s
                  /\ -x.den <= x.num /\ x.num <= x.den
                  /\ s = 0 => x.num = 0
                  /\ s = -32768 => x.num = -x.den
                  /\ s = 32767 => x.num = x.den

\* C21, witness: four bytes decoded to the samples of 32767 and -32768.
C21_Witness ==
    /\ input.fn = "decode"
    /\ output.fn = "decode"
    /\ input.bytes = <<255, 127, 0, 128>>
    /\ Len(output.samples) = 2

\* A text with the fence markers taken out.
Stripped(toks) == SelectSeq(toks, LAMBDA tok : tok \notin {Fence, FenceJson})

\* C22: the parsing fails with a format error when the response text is
\* absent, empty or not parseable once the fence markers are stripped; a
\* payload gives the same outcome inside a fence as outside; and a payload
\* that is a JSON object is returned as the value JSON.parse gives for it
\* once stripped.
C22_ParseContract ==
    output.fn = "parse" =>
        LET r == input.responseText
            res == output.result
        IN  /\ (~r.defined \/ r.text = <<>> \/ ~JSONParse(Stripped(r.text)).ok) =>
                   ~res.ok /\ res.error \in FormatErrors
            /\ \A p \in Payloads :
                  r.defined /\ r.text \in Wrappings(p) =>
                      /\ res = parseGeminiJson(draft, Text(p))
                      /\ StartsWithBrace(p[1]) => res = JSONParse(Stripped(p))

\* C22, witness: a fenced object whose string holds a fence marker is parsed.
C22_Witness ==
    /\ output.fn = "parse"
    /\ input.fn = "parse"
    /\ input.responseText.text =
          <<FenceJson, WhiteSpace, StrOpen, Fence, StrClose, WhiteSpace, Fence>>
    /\ output.result.ok

\* The positions of the parts that carry an audio payload.
AudioAt(parts) == {i \in 1..Len(parts) : HasData(parts[i])}
\* The least element of a non-empty set of numbers.
Least(S) == CHOOSE i \in S : \A j \in S : i <= j

\* C23: the synthesis returns the payload of the first part, in part order,
\* that carries one, and fails as no audio generated exactly when no part
\* carries one.
C23_FirstAudioPart ==
    output.fn = "speech" =>
        LET parts == input.parts
            res == output.result
        IN  /\ AudioAt(parts) # {} =>
                   res.ok /\ res.value = parts[Least(AudioAt(parts))].data
            /\ AudioAt(parts) = {} =>
                   ~res.ok /\ res.error \in {ErrNoAudio, ErrNoAudio1}
            /\ ~res.ok => AudioAt(parts) = {}

\* C23, witness: the audio of the second part is returned, a text part
\* before it and another audio part after it.
C23_Witness ==
    /\ input.fn = "speech"
    /\ output.fn = "speech"
    /\ input.parts = <<TextPart, AudioPart("AAAA"), AudioPart("UklGRg==")>>
    /\ output.result.ok
    /\ output.result.value = "AAAA"

\* C26: if every encoding and every gateway call settles, a session that is
\* loading eventually is not loading, whatever the user does meanwhile.
C26_LoadingEnds == state.isLoading ~> ~state.isLoading

\* C26, witness: the session is loading with two requests in flight.
C26_Witness ==
    /\ state.isLoading
    /\ Count(pending, IsGatewayTask) = 2
====
